---- MODULE Spec2Model ----
(***************************************************************************)
(* Model of worlds/soe/__init__.py: the Secret of Evermore world of the    *)
(* multi-game randomizer.                                                  *)
(*                                                                         *)
(*   - module import: the native catalog (_items, _locations), the gourd   *)
(*     name fix-up and the two id mappings (_get_item_mapping,             *)
(*     _get_location_mapping);                                             *)
(*   - the generation steps the engine calls on the world: create_regions, *)
(*     create_items, set_rules, generate_basic, the fill and post_fill;    *)
(*   - SoEWorld.generate_output, run by the output thread: name finalize,  *)
(*     placement file, native build, packaging, cleanup;                   *)
(*   - SoEWorld.modify_multidata, run by the engine's finalization thread. *)
(*                                                                         *)
(* Python values: None is the integer -1 (no id and no index is negative); *)
(* a str is a sequence of code points; a dict is a function; exception     *)
(* kinds and file paths are strings, "None" standing for no exception and  *)
(* for an unassigned path.                                                 *)
(***************************************************************************)
EXTENDS Integers, Sequences, FiniteSets, TLC

VARIABLES
    _items,                \* pyevermizer.get_items(), cached at import
    _locations,            \* pyevermizer.get_locations(), cached at import
    import_pc,             \* position of the module-level code
    import_i,              \* index of the module-level loop in progress
    item_name_to_id,       \* SoEWorld.item_name_to_id
    item_id_to_raw,        \* SoEWorld.item_id_to_raw
    location_name_to_id,   \* SoEWorld.location_name_to_id
    location_id_to_raw,    \* SoEWorld.location_id_to_raw
    player_name,           \* world.player_name: player -> display name
    world_locations,       \* world.get_locations()
    world_regions,         \* world.regions
    world_pc,              \* the generation step the engine calls next
    restrict_item_placement,  \* SoEWorld.restrict_item_placement
    itempool,              \* world.itempool
    precollected_items,    \* world.precollected_items
    access_rules,          \* the access rules set_rules has installed
    item_rules,            \* the item rules set_rules has installed
    completion_condition,  \* world.completion_condition[player]
    evermizer_seed,        \* self.evermizer_seed
    connect_names,         \* multidata["connect_names"]
    connect_name,          \* self.connect_name
    connect_name_available_event,  \* self.connect_name_available_event
    go_pc,                 \* position of the output thread in generate_output
    go_player_name,        \* generate_output's local player_name
    placement_file,        \* generate_output's local placement_file
    out_file,              \* generate_output's local out_file
    files,                 \* the files that exist in the output directory
    placement_lines,       \* the content of the placement file
    f_open,                \* whether the placement file handle is open
    loc_i,                 \* index of the serialization loop
    build_status,          \* what pyevermizer.main returned
    builder_calls,         \* the calls pyevermizer.main has received
    patch_complete,        \* whether the patch artifact was written and closed
    exc,                   \* the exception the try body raised
    cleanup_exc,           \* the exception that left the finally block
    go_result,             \* how generate_output ended
    stage_log,             \* the pipeline stages attempted, in order
    mm_pc,                 \* position of the finalization thread
    payload                \* modify_multidata's local payload

vars == << _items, _locations, import_pc, import_i, item_name_to_id,
           item_id_to_raw, location_name_to_id, location_id_to_raw,
           player_name, world_locations, world_regions, world_pc,
           restrict_item_placement, itempool, precollected_items,
           access_rules, item_rules, completion_condition, evermizer_seed,
           connect_names, connect_name,
           connect_name_available_event, go_pc, go_player_name,
           placement_file, out_file, files, placement_lines, f_open, loc_i,
           build_status, builder_calls, patch_complete, exc, cleanup_exc,
           go_result, stage_log, mm_pc, payload >>

catalog_vars == << _items, _locations, import_pc, import_i, item_name_to_id,
                   item_id_to_raw, location_name_to_id, location_id_to_raw >>

world_vars == << player_name, world_locations, world_regions, world_pc,
                restrict_item_placement, itempool, precollected_items,
                access_rules, item_rules, completion_condition,
                evermizer_seed >>

output_vars == << connect_name, connect_name_available_event, go_pc,
                  go_player_name, placement_file, out_file, files,
                  placement_lines, f_open, loc_i, build_status, builder_calls,
                  patch_complete, exc, cleanup_exc, go_result, stage_log >>

multidata_vars == << connect_names, mm_pc, payload >>

-----------------------------------------------------------------------------
(* Python values *)

None == 0 - 1

\* d[k] = v on a dict
DictSet(d, k, v) ==
    [x \in (DOMAIN d) \cup {k} |-> IF x = k THEN v ELSE d[x]]

\* del d[k] on a dict that holds k
DictDel(d, k) ==
    [x \in (DOMAIN d) \ {k} |-> d[x]]

EmptyDict == << >>

-----------------------------------------------------------------------------
(* The native catalog and the numeric ids *)

CHECK_NONE == "NONE"
CHECK_ALCHEMY == "ALCHEMY"
CHECK_BOSS == "BOSS"
CHECK_GOURD == "GOURD"
CHECK_NPC == "NPC"

CheckTypes == {CHECK_ALCHEMY, CHECK_BOSS, CHECK_GOURD, CHECK_NPC}

_id_base == 64000

\* fault: the boss range starts one id early
OffsetWrongBoss(type) ==
    CASE type = CHECK_ALCHEMY -> _id_base + 0
      [] type = CHECK_BOSS -> _id_base + 49
      [] type = CHECK_GOURD -> _id_base + 100
      [] type = CHECK_NPC -> _id_base + 400

_id_offset(type) ==
    CASE type = CHECK_ALCHEMY -> _id_base + 0
      [] type = CHECK_BOSS -> _id_base + 50
      [] type = CHECK_GOURD -> _id_base + 100
      [] type = CHECK_NPC -> _id_base + 400

\* apid = _id_offset[raw.type] + raw.index
ApId(raw) == _id_offset(raw.type) + raw.index

\* A catalog name is <<text, n>>: the text, and the number the gourd fix-up
\* appended to it (None when nothing was appended).
Name(text) == <<text, None>>

\* f'{_loc.name} #{_loc.index}'
FixedUpName(name, index) == <<name[1], index>>

\* fault: the gourd names are left as pyevermizer returns them
NoFixUp(loc) == loc

\* for _loc in _locations: the body of the fix-up loop, on one location
FixUp(loc) ==
    IF loc.type = CHECK_GOURD
    THEN [loc EXCEPT !.name = FixedUpName(loc.name, loc.index)]
    ELSE loc

\* the body of _get_location_mapping's loop, on one location
LocationMappingStep(m, loc) ==
    [id_to_raw |-> DictSet(m.id_to_raw, ApId(loc), loc),
     name_to_id |-> DictSet(m.name_to_id, loc.name, ApId(loc))]

\* fault: a later item of the same name replaces the earlier one
ItemMappingStepNoSkip(m, item) ==
    [id_to_raw |-> DictSet(m.id_to_raw, ApId(item), item),
     name_to_id |-> DictSet(m.name_to_id, item.name, ApId(item))]

\* the body of _get_item_mapping's loop, on one item
ItemMappingStep(m, item) ==
    IF item.name \in DOMAIN m.name_to_id
    THEN m
    ELSE [id_to_raw |-> DictSet(m.id_to_raw, ApId(item), item),
          name_to_id |-> DictSet(m.name_to_id, item.name, ApId(item))]

\* name_to_id['Done'] = None, name_to_id['Victory'] = None
WithSynthetic(m, text) ==
    [m EXCEPT !.name_to_id = DictSet(m.name_to_id, Name(text), None)]

EmptyMapping == [name_to_id |-> EmptyDict, id_to_raw |-> EmptyDict]

RECURSIVE LocationLoop(_, _, _)
LocationLoop(m, locs, i) ==
    IF i > Len(locs) THEN m
    ELSE LocationLoop(LocationMappingStep(m, locs[i]), locs, i + 1)

RECURSIVE ItemLoop(_, _, _)
ItemLoop(m, its, i) ==
    IF i > Len(its) THEN m
    ELSE ItemLoop(ItemMappingStep(m, its[i]), its, i + 1)

\* the whole of _get_location_mapping and of _get_item_mapping
_get_location_mapping(locs) == WithSynthetic(LocationLoop(EmptyMapping, locs, 1), "Done")

_get_item_mapping(its) == WithSynthetic(ItemLoop(EmptyMapping, its, 1), "Victory")

-----------------------------------------------------------------------------
(* Module import, one loop iteration at a time *)

\* lines 60-62
ImportFixUp ==
    /\ import_pc = "fixup"
    /\ IF import_i <= Len(_locations)
       THEN /\ _locations' = [_locations EXCEPT ![import_i] = FixUp(_locations[import_i])]
            /\ import_i' = import_i + 1
            /\ import_pc' = import_pc
       ELSE /\ import_pc' = "item_mapping"
            /\ import_i' = 1
            /\ _locations' = _locations
    /\ UNCHANGED << _items, item_name_to_id, item_id_to_raw,
                    location_name_to_id, location_id_to_raw >>
    /\ UNCHANGED << world_vars, output_vars, multidata_vars >>

\* line 100: item_name_to_id, item_id_to_raw = _get_item_mapping()
ImportItemMapping ==
    /\ import_pc = "item_mapping"
    /\ LET m == [name_to_id |-> item_name_to_id, id_to_raw |-> item_id_to_raw]
           n == IF import_i <= Len(_items)
                THEN ItemMappingStep(m, _items[import_i])
                ELSE WithSynthetic(m, "Victory")
       IN /\ item_name_to_id' = n.name_to_id
          /\ item_id_to_raw' = n.id_to_raw
    /\ IF import_i <= Len(_items)
       THEN import_i' = import_i + 1 /\ import_pc' = import_pc
       ELSE import_i' = 1 /\ import_pc' = "location_mapping"
    /\ UNCHANGED << _items, _locations, location_name_to_id, location_id_to_raw >>
    /\ UNCHANGED << world_vars, output_vars, multidata_vars >>

\* line 101: location_name_to_id, location_id_to_raw = _get_location_mapping()
ImportLocationMapping ==
    /\ import_pc = "location_mapping"
    /\ LET m == [name_to_id |-> location_name_to_id, id_to_raw |-> location_id_to_raw]
           n == IF import_i <= Len(_locations)
                THEN LocationMappingStep(m, _locations[import_i])
                ELSE WithSynthetic(m, "Done")
       IN /\ location_name_to_id' = n.name_to_id
          /\ location_id_to_raw' = n.id_to_raw
    /\ IF import_i <= Len(_locations)
       THEN import_i' = import_i + 1 /\ import_pc' = import_pc
       ELSE import_i' = 1 /\ import_pc' = "loaded"
    /\ UNCHANGED << _items, _locations, item_name_to_id, item_id_to_raw >>
    /\ UNCHANGED << world_vars, output_vars, multidata_vars >>

-----------------------------------------------------------------------------
(* str and its UTF-8 encoding *)

\* str.encode('utf-8') of one code point
Utf8Char(cp) ==
    IF cp < 128 THEN << cp >>
    ELSE IF cp < 2048 THEN << 192 + (cp \div 64), 128 + (cp % 64) >>
    ELSE IF cp < 65536
         THEN << 224 + (cp \div 4096), 128 + ((cp \div 64) % 64), 128 + (cp % 64) >>
    ELSE << 240 + (cp \div 262144), 128 + ((cp \div 4096) % 64),
            128 + ((cp \div 64) % 64), 128 + (cp % 64) >>

\* str.encode('utf-8')
RECURSIVE Utf8Encode(_)
Utf8Encode(s) ==
    IF s = << >> THEN << >>
    ELSE Utf8Char(Head(s)) \o Utf8Encode(Tail(s))

\* s[:n]
Slice(s, n) == SubSeq(s, 1, IF n < Len(s) THEN n ELSE Len(s))

\* s[:-1]
DropLast(s) == SubSeq(s, 1, Len(s) - 1)

\* the 32 of player_name[:32] and the 32 of the while condition
SliceChars == 32

MaxBytes == 32

\* fault: the loop also shrinks a name of exactly 32 bytes
ShrinkAtLimit(name) == Len(Utf8Encode(name)) >= MaxBytes

\* while len(self.connect_name.encode('utf-8')) > 32
ShrinkNeeded(name) == Len(Utf8Encode(name)) > MaxBytes

\* self.connect_name before generate_output assigns it
Unassigned == << None >>

-----------------------------------------------------------------------------
(* The world after the fill: players, items, locations *)

\* self.player, and another player of the multiworld
player == "P1"

other_player == "P2"

\* SoEItem(name, advancement, code, player)
SoEItem(name, advancement, code, owner) ==
    [name |-> name, advancement |-> advancement, code |-> code, player |-> owner]

\* bool(x) of an id: None and 0 are false
Truthy(x) == x # None /\ x # 0

\* fault: the flag is set for the locations that have an id
SoELocationEventIfAddress(owner, name, address, item) ==
    [player |-> owner, name |-> name, address |-> address,
     event |-> Truthy(address), locked |-> FALSE, item |-> item]

\* SoELocation(player, name, address, parent), lines 246-249: self.event =
\* not address; with the item the location holds (NoItem until one is placed)
SoELocation(owner, name, address, item) ==
    [player |-> owner, name |-> name, address |-> address,
     event |-> ~Truthy(address), locked |-> FALSE, item |-> item]

\* location.item is None
NoItem == [name |-> << >>, advancement |-> FALSE, code |-> None, player |-> "None"]

\* Location.place_locked_item(item)
place_locked_item(location, item) ==
    [location EXCEPT !.item = item, !.locked = TRUE]

\* create_event
create_event(event) == SoEItem(Name(event), TRUE, None, player)

\* create_item, called with a catalog item
create_item(item, force_progression) ==
    SoEItem(item.name, force_progression \/ item.progression,
            item_name_to_id[item.name], player)

\* create_item, called with the name of an item (lines 116-117 first)
create_item_str(item, force_progression) ==
    create_item(item_id_to_raw[item_name_to_id[item]], force_progression)

-----------------------------------------------------------------------------
(* Files of the output directory *)

\* a path not yet assigned (the local is None)
NonePath == << >>

\* out_base = output_path(output_directory, f'AP_{seed_name}_P{player}_{player_name}')
out_base == "AP_seed_P1_name"

\* out_base + '.sfc', out_base + '.txt', out_base + '.apsoe'
OutPath == << out_base, ".sfc" >>

PlacementPath == << out_base, ".txt" >>

PatchPath == << out_base, ".apsoe" >>

\* out_file[:-4] + '_SPOILER.log'
SpoilerOf(path) == << path[1], "_SPOILER.log" >>

\* what an earlier run may have left in a placement file
StaleLines == << << "stale" >> >>

\* os.unlink(path): the exception it raises ("None" when it deletes the file)
Unlink(path, fs) ==
    IF path = NonePath THEN [err |-> "TypeError", files |-> fs]
    ELSE IF path \notin fs THEN [err |-> "FileNotFoundError", files |-> fs]
    ELSE [err |-> "None", files |-> fs \ {path}]

\* fault: except FileNotFoundError instead of a bare except
CatchesOnlyFileNotFound(err) == err = "FileNotFoundError"

\* except: (a bare except clause catches every exception)
CleanupCatches(err) == TRUE

\* the finally block, lines 223-229: what it leaves on disk and the exception
\* that leaves it ("None" when it completes)
Cleanup(fs, pf, of) ==
    LET u1 == Unlink(pf, fs)
        u2 == Unlink(of, u1.files)
        u3 == IF of = NonePath
              THEN [err |-> "TypeError", files |-> u2.files]
              ELSE Unlink(SpoilerOf(of), u2.files)
        last == IF u1.err # "None" THEN u1
                ELSE IF u2.err # "None" THEN u2
                ELSE u3
    IN [files |-> last.files,
        raised |-> IF last.err = "None" \/ CleanupCatches(last.err)
                   THEN "None" ELSE last.err]

-----------------------------------------------------------------------------
(* SoEWorld.generate_output, the output thread *)

\* line 182: player_name = self.world.get_player_name(self.player)
GoGetPlayerName ==
    /\ go_pc = "idle"
    /\ import_pc = "loaded"
    /\ \/ /\ go_player_name' = player_name[player]
          /\ go_pc' = "slice"
          /\ UNCHANGED go_result
       \/ /\ go_result' = "KeyError"
          /\ go_pc' = "done"
          /\ UNCHANGED go_player_name
    /\ UNCHANGED << connect_name, connect_name_available_event, placement_file,
                    out_file, files, placement_lines, f_open, loc_i, build_status,
                    builder_calls, patch_complete, exc, cleanup_exc, stage_log >>
    /\ UNCHANGED << catalog_vars, world_vars, multidata_vars >>

\* fault: the event is set as soon as connect_name is assigned, before the
\* loop has shortened it
GoSliceSetsEvent ==
    /\ go_pc = "slice"
    /\ connect_name' = Slice(go_player_name, SliceChars)
    /\ connect_name_available_event' = TRUE
    /\ go_pc' = "shrink"
    /\ UNCHANGED << go_player_name, placement_file,
                    out_file, files, placement_lines, f_open, loc_i, build_status,
                    builder_calls, patch_complete, exc, cleanup_exc, go_result,
                    stage_log >>
    /\ UNCHANGED << catalog_vars, world_vars, multidata_vars >>

\* line 183: self.connect_name = player_name[:32]
GoSlice ==
    /\ go_pc = "slice"
    /\ connect_name' = Slice(go_player_name, SliceChars)
    /\ go_pc' = "shrink"
    /\ UNCHANGED << connect_name_available_event, go_player_name, placement_file,
                    out_file, files, placement_lines, f_open, loc_i, build_status,
                    builder_calls, patch_complete, exc, cleanup_exc, go_result,
                    stage_log >>
    /\ UNCHANGED << catalog_vars, world_vars, multidata_vars >>

\* lines 184-185: the while loop, one test (and one iteration) at a time
GoShrink ==
    /\ go_pc = "shrink"
    /\ IF ShrinkNeeded(connect_name)
       THEN connect_name' = DropLast(connect_name) /\ go_pc' = go_pc
       ELSE connect_name' = connect_name /\ go_pc' = "set"
    /\ UNCHANGED << connect_name_available_event, go_player_name, placement_file,
                    out_file, files, placement_lines, f_open, loc_i, build_status,
                    builder_calls, patch_complete, exc, cleanup_exc, go_result,
                    stage_log >>
    /\ UNCHANGED << catalog_vars, world_vars, multidata_vars >>

\* lines 186-188: the event is set, the two path locals become None
GoSetEvent ==
    /\ go_pc = "set"
    /\ connect_name_available_event' = TRUE
    /\ placement_file' = NonePath
    /\ out_file' = NonePath
    /\ stage_log' = Append(stage_log, "name_finalize")
    /\ go_pc' = "prepare"
    /\ UNCHANGED << connect_name, go_player_name, files, placement_lines, f_open,
                    loc_i, build_status, builder_calls, patch_complete, exc,
                    cleanup_exc, go_result >>
    /\ UNCHANGED << catalog_vars, world_vars, multidata_vars >>

\* lines 190-201: options, paths and flags. A lookup may raise before the
\* paths are assigned (lines 190-193) or after (lines 198-201).
GoPrepare ==
    /\ go_pc = "prepare"
    /\ \E outcome \in {"ok", "raise_before_paths", "raise_after_paths"} :
          /\ IF outcome = "raise_before_paths"
             THEN UNCHANGED << out_file, placement_file >>
             ELSE out_file' = OutPath /\ placement_file' = PlacementPath
          /\ IF outcome = "ok"
             THEN go_pc' = "open" /\ UNCHANGED exc
             ELSE go_pc' = "cleanup" /\ exc' = "KeyError"
    /\ UNCHANGED << connect_name, connect_name_available_event, go_player_name,
                    files, placement_lines, f_open, loc_i, build_status,
                    builder_calls, patch_complete, cleanup_exc, go_result,
                    stage_log >>
    /\ UNCHANGED << catalog_vars, world_vars, multidata_vars >>

\* line 203: open(placement_file, "wb") creates or truncates the file, or raises
GoOpen ==
    /\ go_pc = "open"
    /\ stage_log' = Append(stage_log, "serialize")
    /\ \/ /\ files' = files \cup {placement_file}
          /\ placement_lines' = << >>
          /\ f_open' = TRUE
          /\ loc_i' = 1
          /\ go_pc' = "write"
          /\ UNCHANGED exc
       \/ /\ exc' = "OSError"
          /\ go_pc' = "cleanup"
          /\ UNCHANGED << files, placement_lines, f_open, loc_i >>
    /\ UNCHANGED << connect_name, connect_name_available_event, go_player_name,
                    placement_file, out_file, build_status, builder_calls,
                    patch_complete, cleanup_exc, go_result >>
    /\ UNCHANGED << catalog_vars, world_vars, multidata_vars >>

\* lines 209-213: the line of one location that holds a non-event item
PlacementLine(location) ==
    LET item == location.item
        loc == location_id_to_raw[location.address]
    IN IF item.player # player
       THEN << loc.type, ",", loc.index, ":", CHECK_NONE, ",", item.code, ",",
               item.player, "\n" >>
       ELSE LET raw == item_id_to_raw[item.code]
            IN << loc.type, ",", loc.index, ":", raw.type, ",", raw.index, "\n" >>

\* fault: no filter on the owner of the location
AnyLocation(location) == TRUE

\* line 204: filter(lambda l: l.player == self.player, ...)
OwnLocation(location) == location.player = player

\* lines 205-207: if item.code is None: continue
SkipsEvent(location) == location.item.code = None

\* lines 204-214: the loop, one location of world.get_locations() at a time;
\* leaving the with block closes the file, also when a write raises
GoWrite ==
    /\ go_pc = "write"
    /\ IF loc_i > Len(world_locations)
       THEN /\ f_open' = FALSE
            /\ go_pc' = "build"
            /\ UNCHANGED << placement_lines, loc_i, exc >>
       ELSE LET location == world_locations[loc_i]
            IN IF ~OwnLocation(location) \/ SkipsEvent(location)
               THEN /\ loc_i' = loc_i + 1
                    /\ UNCHANGED << placement_lines, f_open, go_pc, exc >>
               ELSE IF location.address \notin DOMAIN location_id_to_raw
                       \/ (location.item.player = player
                           /\ location.item.code \notin DOMAIN item_id_to_raw)
               THEN /\ exc' = "KeyError"
                    /\ f_open' = FALSE
                    /\ go_pc' = "cleanup"
                    /\ UNCHANGED << placement_lines, loc_i >>
               ELSE \/ /\ placement_lines' = Append(placement_lines, PlacementLine(location))
                       /\ loc_i' = loc_i + 1
                       /\ UNCHANGED << f_open, go_pc, exc >>
                    \/ /\ exc' = "OSError"
                       /\ f_open' = FALSE
                       /\ go_pc' = "cleanup"
                       /\ UNCHANGED << placement_lines, loc_i >>
    /\ UNCHANGED << connect_name, connect_name_available_event, go_player_name,
                    placement_file, out_file, files, build_status, builder_calls,
                    patch_complete, cleanup_exc, go_result, stage_log >>
    /\ UNCHANGED << catalog_vars, world_vars, multidata_vars >>

\* fault: only a status above 1 counts as a failure
RaisesOnPositive(status) == status > 1

\* line 216: if (pyevermizer.main(...)): any non-zero status is true
BuildFailed(status) == status # 0

\* lines 216-218: the native builder is called once; it returns 0 after writing
\* the output image (and the spoiler log, unless that write failed), or a
\* non-zero status after writing any of its files, or none
GoBuild ==
    /\ go_pc = "build"
    /\ stage_log' = Append(stage_log, "build")
    /\ builder_calls' = Append(builder_calls,
          [connect_name |-> connect_name,
           placement |-> placement_lines,
           placement_closed |-> (~f_open /\ placement_file \in files)])
    /\ \E status \in {0, 1}, made \in SUBSET {out_file, SpoilerOf(out_file)} :
          /\ status = 0 => out_file \in made
          /\ build_status' = status
          /\ files' = files \cup made
          /\ IF BuildFailed(status)
             THEN exc' = "RuntimeError" /\ go_pc' = "cleanup"
             ELSE exc' = exc /\ go_pc' = "package"
    /\ UNCHANGED << connect_name, connect_name_available_event, go_player_name,
                    placement_file, out_file, placement_lines, f_open, loc_i,
                    patch_complete, cleanup_exc, go_result >>
    /\ UNCHANGED << catalog_vars, world_vars, multidata_vars >>

\* line 219: lzma.LZMAFile(patch_file, 'wb') creates the patch file, or raises
GoPackageOpen ==
    /\ go_pc = "package"
    /\ stage_log' = Append(stage_log, "package")
    /\ \/ /\ files' = files \cup {PatchPath}
          /\ go_pc' = "package_write"
          /\ UNCHANGED exc
       \/ /\ exc' = "OSError"
          /\ go_pc' = "cleanup"
          /\ UNCHANGED files
    /\ UNCHANGED << connect_name, connect_name_available_event, go_player_name,
                    placement_file, out_file, placement_lines, f_open, loc_i,
                    build_status, builder_calls, patch_complete, cleanup_exc,
                    go_result >>
    /\ UNCHANGED << catalog_vars, world_vars, multidata_vars >>

\* line 220: f.write(generate_patch(rom_file, out_file)); generate_patch reads
\* the output image and may raise
GoPackageWrite ==
    /\ go_pc = "package_write"
    /\ \/ /\ out_file \in files
          /\ patch_complete' = TRUE
          /\ UNCHANGED exc
       \/ /\ exc' = "PatchError"
          /\ UNCHANGED patch_complete
    /\ go_pc' = "cleanup"
    /\ UNCHANGED << connect_name, connect_name_available_event, go_player_name,
                    placement_file, out_file, files, placement_lines, f_open,
                    loc_i, build_status, builder_calls, cleanup_exc, go_result,
                    stage_log >>
    /\ UNCHANGED << catalog_vars, world_vars, multidata_vars >>

\* lines 221-229: except: raise, then the finally block
GoCleanup ==
    /\ go_pc = "cleanup"
    /\ stage_log' = Append(stage_log, "cleanup")
    /\ LET c == Cleanup(files, placement_file, out_file)
       IN /\ files' = c.files
          /\ cleanup_exc' = c.raised
    /\ go_pc' = "finish"
    /\ UNCHANGED << connect_name, connect_name_available_event, go_player_name,
                    placement_file, out_file, placement_lines, f_open, loc_i,
                    build_status, builder_calls, patch_complete, exc, go_result >>
    /\ UNCHANGED << catalog_vars, world_vars, multidata_vars >>

\* fault: except: pass instead of except: raise
OutcomeSwallows(body_exc, finally_exc) ==
    IF finally_exc # "None" THEN finally_exc ELSE "returned"

\* what the caller sees once the finally block is over: an exception raised in
\* it, else the exception the try body raised, else a return
Outcome(body_exc, finally_exc) ==
    IF finally_exc # "None" THEN finally_exc
    ELSE IF body_exc # "None" THEN body_exc
    ELSE "returned"

GoFinish ==
    /\ go_pc = "finish"
    /\ go_result' = Outcome(exc, cleanup_exc)
    /\ go_pc' = "done"
    /\ UNCHANGED << connect_name, connect_name_available_event, go_player_name,
                    placement_file, out_file, files, placement_lines, f_open,
                    loc_i, build_status, builder_calls, patch_complete, exc,
                    cleanup_exc, stage_log >>
    /\ UNCHANGED << catalog_vars, world_vars, multidata_vars >>

-----------------------------------------------------------------------------
(* SoEWorld.modify_multidata, the finalization thread *)

\* the call, up to line 233
MmCall ==
    /\ mm_pc = "idle"
    /\ import_pc = "loaded"
    /\ mm_pc' = "wait"
    /\ UNCHANGED << connect_names, payload >>
    /\ UNCHANGED << catalog_vars, world_vars, output_vars >>

\* fault: the wait does not block
WaitReturnsAtOnce == TRUE

\* fault: the wait gives up once the output thread has ended
WaitGivesUp == connect_name_available_event \/ go_pc = "done"

\* fault: the wait returns only while the output has not failed
WaitNeedsSuccess == connect_name_available_event /\ exc = "None"

\* threading.Event.wait() returns once the event is set
WaitReturns == connect_name_available_event

\* line 233: self.connect_name_available_event.wait()
MmWait ==
    /\ mm_pc = "wait"
    /\ WaitReturns
    /\ mm_pc' = "check"
    /\ UNCHANGED << connect_names, payload >>
    /\ UNCHANGED << catalog_vars, world_vars, output_vars >>

\* line 235: if self.connect_name and self.connect_name != self.world.player_name[self.player]
MmCheck ==
    /\ mm_pc = "check"
    /\ IF connect_name # << >> /\ connect_name # player_name[player]
       THEN mm_pc' = "payload"
       ELSE mm_pc' = "done"
    /\ UNCHANGED << connect_names, payload >>
    /\ UNCHANGED << catalog_vars, world_vars, output_vars >>

\* line 236: payload = multidata["connect_names"][self.world.player_name[self.player]]
MmPayload ==
    /\ mm_pc = "payload"
    /\ payload' = connect_names[player_name[player]]
    /\ mm_pc' = "insert"
    /\ UNCHANGED connect_names
    /\ UNCHANGED << catalog_vars, world_vars, output_vars >>

\* line 237: multidata["connect_names"][self.connect_name] = payload
MmInsert ==
    /\ mm_pc = "insert"
    /\ connect_names' = DictSet(connect_names, connect_name, payload)
    /\ mm_pc' = "del"
    /\ UNCHANGED payload
    /\ UNCHANGED << catalog_vars, world_vars, output_vars >>

\* fault: the new key is deleted instead of the registered one
DelConnectName == connect_name

\* the key of line 238
DelKey == player_name[player]

\* line 238: del (multidata["connect_names"][self.world.player_name[self.player]])
MmDel ==
    /\ mm_pc = "del"
    /\ connect_names' = DictDel(connect_names, DelKey)
    /\ mm_pc' = "done"
    /\ UNCHANGED payload
    /\ UNCHANGED << catalog_vars, world_vars, output_vars >>

-----------------------------------------------------------------------------
(* The generation steps the engine calls on the world *)

\* pyevermizer.P_FINAL_BOSS, and a token of the requires lists
P_FINAL_BOSS == "P_FINAL_BOSS"

P_WEAPON == "P_WEAPON"

\* state._soe_has(progress, world, player, count) of the logic mixin. A
\* collection state is the set of the questions << progress, count >> it
\* answers with True; count is None where the call passes none (line 146).
_soe_has(state, progress, count) == << progress, count >> \in state

\* fault: the rule looks at the first requirement only
RuleChecksFirstOnly(requires, state) ==
    requires = << >> \/ _soe_has(state, Head(requires)[2], Head(requires)[1])

\* make_rule(requires)(state), lines 155-162: for count, progress in requires
RECURSIVE make_rule(_, _)
make_rule(requires, state) ==
    IF requires = << >> THEN TRUE
    ELSE IF ~_soe_has(state, Head(requires)[2], Head(requires)[1]) THEN FALSE
    ELSE make_rule(Tail(requires), state)

\* an access rule set_rules installed, evaluated on a state
AccessRuleHolds(rule, state) ==
    CASE rule.rule = "make_rule" -> make_rule(rule.requires, state)
      [] rule.rule = "final_boss" -> _soe_has(state, P_FINAL_BOSS, None)
      [] rule.rule = "true" -> TRUE

\* fault: the test of the owner is the wrong way round
LimitRuleOwnerInverted(item_type, item) ==
    item.player = player \/ item_id_to_raw[item.code].type = item_type

\* make_item_type_limit_rule(item_type)(item), lines 164-165
make_item_type_limit_rule(item_type, item) ==
    item.player # player \/ item_id_to_raw[item.code].type = item_type

\* location.item_rule(item): the default rule accepts every item,
\* add_item_rule adds a conjunct; limits are the categories of the added
\* type limit rules
ItemRuleHolds(limits, item) ==
    \A k \in 1..Len(limits) : make_item_type_limit_rule(limits[k], item)

Region(name, exits) == [player |-> player, name |-> name, exits |-> exits]

\* the two regions of create_regions and the entrance that connects them
OwnRegions ==
    << Region("Menu", << [name |-> "New Game", connected_region |-> "Ingame"] >>),
       Region("Ingame", << >>) >>

\* create_regions, lines 120-132
CreateRegions ==
    /\ world_pc = "create_regions"
    /\ world_regions' = world_regions \o OwnRegions
    /\ world_locations' =
          world_locations
              \o [i \in 1..Len(_locations) |->
                     SoELocation(player, _locations[i].name,
                                 location_name_to_id[_locations[i].name], NoItem)]
              \o << SoELocation(player, Name("Done"), None, NoItem) >>
    /\ world_pc' = "create_items"
    /\ UNCHANGED << player_name, restrict_item_placement, itempool,
                    precollected_items, access_rules, item_rules,
                    completion_condition, evermizer_seed >>
    /\ UNCHANGED << catalog_vars, output_vars, multidata_vars >>

\* fault: the items are created without the force_progression argument
CreatePoolItemUnforced(item) == create_item(item, FALSE)

\* create_items, line 140: self.create_item(item, self.restrict_item_placement)
CreatePoolItem(item) == create_item(item, restrict_item_placement)

\* create_items, lines 134-140. precollected_items is [type, items]: type is
\* "dict" or "list", items gives every player's items (of a dict, the list
\* under the player's key; of a list, the items of that player in it).
CreateItems ==
    /\ world_pc = "create_items"
    /\ precollected_items' =
          IF precollected_items.type = "dict"
          THEN [precollected_items EXCEPT !.items[player] = << >>]
          ELSE precollected_items
    /\ itempool' = itempool \o [i \in 1..Len(_items) |-> CreatePoolItem(_items[i])]
    /\ world_pc' = "set_rules"
    /\ UNCHANGED << player_name, world_locations, world_regions,
                    restrict_item_placement, access_rules, item_rules,
                    completion_condition, evermizer_seed >>
    /\ UNCHANGED << catalog_vars, output_vars, multidata_vars >>

\* the access rules after set_rules, lines 144-151
InstalledAccessRules ==
    [n \in { _locations[i].name : i \in 1..Len(_locations) }
              \cup {Name("Done"), Name("New Game")} |->
        IF \E i \in 1..Len(_locations) : _locations[i].name = n
        THEN [rule |-> "make_rule",
              requires |-> _locations[CHOOSE i \in 1..Len(_locations) :
                                          _locations[i].name = n].requires]
        ELSE IF n = Name("Done") THEN [rule |-> "final_boss", requires |-> << >>]
        ELSE [rule |-> "true", requires |-> << >>]]

\* the item rules after set_rules, lines 152-153
InstalledItemRules ==
    [n \in { _locations[i].name : i \in 1..Len(_locations) } |->
        IF restrict_item_placement
        THEN << _locations[CHOOSE i \in 1..Len(_locations) : _locations[i].name = n].type >>
        ELSE << >>]

\* set_rules, lines 142-153
SetRules ==
    /\ world_pc = "set_rules"
    /\ completion_condition' = Name("Victory")
    /\ access_rules' = InstalledAccessRules
    /\ item_rules' = InstalledItemRules
    /\ world_pc' = "generate_basic"
    /\ UNCHANGED << player_name, world_locations, world_regions,
                    restrict_item_placement, itempool, precollected_items,
                    evermizer_seed >>
    /\ UNCHANGED << catalog_vars, output_vars, multidata_vars >>

\* world.get_location(name, player)
GetLocation(name) ==
    CHOOSE i \in 1..Len(world_locations) :
        world_locations[i].player = player /\ world_locations[i].name = name

\* random.randint(0, 2**16-1): the two ends of the range
SeedSamples == {0, 2^16 - 1}

\* generate_basic, lines 167-171
GenerateBasic ==
    /\ world_pc = "generate_basic"
    /\ world_locations' =
          [world_locations EXCEPT ![GetLocation(Name("Done"))] =
              place_locked_item(@, create_event("Victory"))]
    /\ \E seed \in SeedSamples : evermizer_seed' = seed
    /\ world_pc' = "fill"
    /\ UNCHANGED << player_name, world_regions, restrict_item_placement,
                    itempool, precollected_items, access_rules, item_rules,
                    completion_condition >>
    /\ UNCHANGED << catalog_vars, output_vars, multidata_vars >>

\* location.can_fill: the item rule of a location of this player
CanFill(location, item) ==
    (location.player = player /\ location.name \in DOMAIN item_rules)
        => ItemRuleHolds(item_rules[location.name], item)

\* The engine's fill: every item of the pool goes to one empty location whose
\* item rule accepts it.
Fill ==
    /\ world_pc = "fill"
    /\ LET empty == { i \in 1..Len(world_locations) : world_locations[i].item = NoItem }
       IN \E f \in [empty -> 1..Len(itempool)] :
             /\ \A i, j \in empty : f[i] = f[j] => i = j
             /\ \A i \in empty : CanFill(world_locations[i], itempool[f[i]])
             /\ world_locations' =
                   [i \in 1..Len(world_locations) |->
                       IF i \in empty
                       THEN [world_locations[i] EXCEPT !.item = itempool[f[i]]]
                       ELSE world_locations[i]]
    /\ itempool' = << >>
    /\ world_pc' = "post_fill"
    /\ UNCHANGED << player_name, world_regions, restrict_item_placement,
                    precollected_items, access_rules, item_rules,
                    completion_condition, evermizer_seed >>
    /\ UNCHANGED << catalog_vars, output_vars, multidata_vars >>

\* post_fill, lines 176-179, on the item of one location
FixUpAdvancement(item) ==
    IF /\ Truthy(item.code)
       /\ item.player = player
       /\ ~item_id_to_raw[item.code].progression
    THEN [item EXCEPT !.advancement = FALSE]
    ELSE item

\* post_fill, lines 173-179
PostFill ==
    /\ world_pc = "post_fill"
    /\ world_locations' =
          IF restrict_item_placement
          THEN [i \in 1..Len(world_locations) |->
                   [world_locations[i] EXCEPT !.item = FixUpAdvancement(@)]]
          ELSE world_locations
    /\ world_pc' = "generate_output"
    /\ UNCHANGED << player_name, world_regions, restrict_item_placement,
                    itempool, precollected_items, access_rules, item_rules,
                    completion_condition, evermizer_seed >>
    /\ UNCHANGED << catalog_vars, output_vars, multidata_vars >>

-----------------------------------------------------------------------------
(* Inputs *)

\* the longest catalog of the import specification, and the longest run of one
\* character in a display name of the name specification
MaxCatalog == 2

MaxRun == 20

\* code points that encode to 1, 2, 3 and 4 bytes
CodePoints == {97, 233, 8364, 128512}

\* n times the character c
Rep(c, n) == [i \in 1..n |-> c]

\* the display names: a run of one character followed by a run of another
DisplayNames ==
    { Rep(c1, n1) \o Rep(c2, n2) :
        << c1, n1, c2, n2 >> \in CodePoints \X (0..MaxRun) \X CodePoints \X (0..MaxRun) }

\* a few display names of this player: short, 40 one-byte characters, 20
\* two-byte characters, 31 one-byte characters and a four-byte one, empty
SampleNames ==
    { Rep(97, 3), Rep(97, 40), Rep(233, 20), Rep(97, 31) \o Rep(128512, 1), << >> }

\* display names of the other player; the first is what 40 one-byte characters
\* are cut to
OtherNames == { Rep(97, 32), Rep(98, 2) }

\* the indexes a catalog entry of a category may carry: the first and the last
\* of the category's reserved range, and the one after it
Slots(type) ==
    CASE type = CHECK_ALCHEMY -> 50
      [] type = CHECK_BOSS -> 50
      [] type = CHECK_GOURD -> 300
      [] type = CHECK_NPC -> 100

SampleIndexes(type) == {0, Slots(type) - 1, Slots(type)}

SampleTexts == {"A", "B"}

\* catalog entries as pyevermizer returns them
RawLocations ==
    UNION { { [type |-> t, index |-> i, name |-> Name(x), requires |-> << >>] :
                i \in SampleIndexes(t), x \in SampleTexts } : t \in CheckTypes }

RawItems ==
    { [type |-> l.type, index |-> l.index, name |-> l.name, progression |-> FALSE] :
        l \in RawLocations }

\* "Items are uniquely defined by a pair of (type, id)", and so are locations
DistinctPairs(catalog) ==
    \A i, j \in 1..Len(catalog) :
        (catalog[i].type = catalog[j].type /\ catalog[i].index = catalog[j].index)
            => i = j

Catalogs(entries) ==
    { c \in UNION { [1..k -> entries] : k \in 0..MaxCatalog } : DistinctPairs(c) }

\* the catalog of the generation specifications
FixedRawLocations ==
    << [type |-> CHECK_ALCHEMY, index |-> 0, name |-> Name("A"), requires |-> << >>],
       [type |-> CHECK_GOURD, index |-> 5, name |-> Name("B"),
        requires |-> << << 1, P_WEAPON >> >>] >>

FixedItems ==
    << [type |-> CHECK_ALCHEMY, index |-> 0, name |-> Name("A"), progression |-> FALSE],
       [type |-> CHECK_GOURD, index |-> 5, name |-> Name("B"), progression |-> TRUE] >>

\* lines 60-62 on the whole catalog
FixUpAll(locs) == [i \in 1..Len(locs) |-> FixUp(locs[i])]

-----------------------------------------------------------------------------
(* Initial states *)

\* before the module-level code runs
InitImport(its, locs) ==
    /\ _items = its
    /\ _locations = locs
    /\ import_pc = "fixup"
    /\ import_i = 1
    /\ item_name_to_id = EmptyDict
    /\ item_id_to_raw = EmptyDict
    /\ location_name_to_id = EmptyDict
    /\ location_id_to_raw = EmptyDict

\* after the module-level code has run
InitLoaded(its, locs) ==
    /\ _items = its
    /\ _locations = FixUpAll(locs)
    /\ import_pc = "loaded"
    /\ import_i = 1
    /\ item_name_to_id = _get_item_mapping(its).name_to_id
    /\ item_id_to_raw = _get_item_mapping(its).id_to_raw
    /\ location_name_to_id = _get_location_mapping(FixUpAll(locs)).name_to_id
    /\ location_id_to_raw = _get_location_mapping(FixUpAll(locs)).id_to_raw

\* SoEWorld.__init__ (lines 107-109) and a generate_output not yet called
InitOutput(stale) ==
    /\ connect_name = Unassigned
    /\ connect_name_available_event = FALSE
    /\ go_pc = "idle"
    /\ go_player_name = << >>
    /\ placement_file = NonePath
    /\ out_file = NonePath
    /\ files = stale
    /\ placement_lines = IF PlacementPath \in stale THEN StaleLines ELSE << >>
    /\ f_open = FALSE
    /\ loc_i = 1
    /\ build_status = None
    /\ builder_calls = << >>
    /\ patch_complete = FALSE
    /\ exc = "None"
    /\ cleanup_exc = "None"
    /\ go_result = "running"
    /\ stage_log = << >>

\* the engine registers every player's name before modify_multidata runs
InitMultidata ==
    /\ connect_names = [n \in {player_name[p] : p \in DOMAIN player_name} |->
                          CHOOSE p \in DOMAIN player_name : player_name[p] = n]
    /\ mm_pc = "idle"
    /\ payload = "None"

\* items the fill may put into a location of this player: the items of this
\* player's pool, and an item of the other player (who plays the same game, so
\* its code is one of this game's codes)
ItemChoices ==
    { create_item(_items[i], FALSE) : i \in 1..Len(_items) }
        \cup { SoEItem(_items[i].name, TRUE, item_name_to_id[_items[i].name], other_player) :
                 i \in {1} \cap (1..Len(_items)) }

\* world.get_locations() after the fill: this player's locations in catalog
\* order (create_regions), Done holding the locked Victory event
\* (generate_basic), and a location of the other player
Placements ==
    { IF other_first THEN << other >> \o own \o << done >>
                     ELSE own \o << done >> \o << other >> :
        own \in { [i \in 1..Len(_locations) |->
                     SoELocation(player, _locations[i].name,
                                 location_name_to_id[_locations[i].name], f[i])] :
                  f \in [1..Len(_locations) -> ItemChoices] },
        done \in { place_locked_item(
                       SoELocation(player, Name("Done"),
                                   location_name_to_id[Name("Done")], NoItem),
                       create_event("Victory")) },
        other \in { SoELocation(other_player, _locations[1].name,
                                location_name_to_id[_locations[1].name], it) :
                    it \in ItemChoices },
        other_first \in BOOLEAN }

FixedPlacement ==
    CHOOSE w \in Placements :
        /\ w[1].player = player
        /\ w[1].item.player = other_player
        /\ w[2].item.player = player
        /\ w[Len(w)].item.player = player

\* the world before a generation step has run
InitNotGenerated ==
    /\ world_regions = << >>
    /\ world_pc = "create_regions"
    /\ access_rules = EmptyDict
    /\ item_rules = EmptyDict
    /\ completion_condition = << >>
    /\ evermizer_seed = None

\* the world once the generation steps have run, restrict_item_placement
\* being the False of line 104
InitGenerated ==
    /\ world_regions = OwnRegions
    /\ world_pc = "generate_output"
    /\ restrict_item_placement = FALSE
    /\ itempool = << >>
    /\ precollected_items =
          [type |-> "dict", items |-> [p \in {player, other_player} |-> << >>]]
    /\ access_rules = InstalledAccessRules
    /\ item_rules = InstalledItemRules
    /\ completion_condition = Name("Victory")
    /\ evermizer_seed = 0

InitNoWorld ==
    /\ player_name = [p \in {player} |-> << >>]
    /\ world_locations = << >>
    /\ restrict_item_placement = FALSE
    /\ precollected_items =
          [type |-> "dict", items |-> [p \in {player, other_player} |-> << >>]]
    /\ itempool = << >>
    /\ InitNotGenerated

\* module import over every small catalog
InitCatalog ==
    /\ \/ \E locs \in Catalogs(RawLocations) : InitImport(FixedItems, locs)
       \/ \E its \in Catalogs(RawItems) : InitImport(its, FixedRawLocations)
    /\ InitNoWorld
    /\ InitOutput({})
    /\ InitMultidata

\* name finalize over every display name
InitName ==
    /\ InitLoaded(FixedItems, FixedRawLocations)
    /\ \E n \in DisplayNames : player_name = [p \in {player} |-> n]
    /\ world_locations = << >>
    /\ InitGenerated
    /\ InitOutput({})
    /\ InitMultidata

\* the two threads of one generation, over the sample names
Init ==
    /\ InitLoaded(FixedItems, FixedRawLocations)
    /\ \E n \in SampleNames, o \in OtherNames :
          /\ n # o
          /\ player_name = [p \in {player, other_player} |-> IF p = player THEN n ELSE o]
    /\ world_locations = FixedPlacement
    /\ InitGenerated
    /\ InitOutput({})
    /\ InitMultidata

\* generate_output over every placement and every set of files an earlier run
\* left behind
InitPipeline ==
    /\ InitLoaded(FixedItems, FixedRawLocations)
    /\ player_name = [p \in {player, other_player} |->
                         IF p = player THEN Rep(233, 20) ELSE Rep(98, 2)]
    /\ world_locations \in Placements
    /\ InitGenerated
    /\ \E stale \in SUBSET {PlacementPath, OutPath, SpoilerOf(OutPath)} : InitOutput(stale)
    /\ InitMultidata

-----------------------------------------------------------------------------
(* Specifications *)

NextCatalog ==
    \/ ImportFixUp
    \/ ImportItemMapping
    \/ ImportLocationMapping

NextName ==
    \/ GoGetPlayerName
    \/ GoSlice
    \/ GoShrink
    \/ GoSetEvent

NextOutput ==
    \/ GoGetPlayerName
    \/ GoSlice
    \/ GoShrink
    \/ GoSetEvent
    \/ GoPrepare
    \/ GoOpen
    \/ GoWrite
    \/ GoBuild
    \/ GoPackageOpen
    \/ GoPackageWrite
    \/ GoCleanup
    \/ GoFinish

NextMultidata ==
    \/ MmCall
    \/ MmWait
    \/ MmCheck
    \/ MmPayload
    \/ MmInsert
    \/ MmDel

Next ==
    \/ NextOutput
    \/ NextMultidata

Spec == Init /\ [][Next]_vars

\* the two threads under a fair scheduler: a thread that can take a step
\* eventually takes one
SpecFair ==
    /\ Init
    /\ [][Next]_vars
    /\ WF_vars(NextOutput)
    /\ WF_vars(NextMultidata)

SpecPipeline == InitPipeline /\ [][NextOutput]_vars

SpecName == InitName /\ [][NextName]_vars

SpecCatalog == InitCatalog /\ [][NextCatalog]_vars

-----------------------------------------------------------------------------
(* Properties of the handoff between the two threads (Spec) *)

\* the table the engine registered, before modify_multidata touches it
RegisteredNames ==
    [n \in {player_name[p] : p \in DOMAIN player_name} |->
        CHOOSE p \in DOMAIN player_name : player_name[p] = n]

\* C1: modify_multidata inserts into or deletes from connect_names only once
\* generate_output has computed connect_name (the loop is over, the name fits
\* 32 bytes) and has set connect_name_available_event.
C1_NoMutationBeforeNameFixed ==
    [][connect_names' # connect_names =>
          /\ connect_name_available_event
          /\ go_pc \notin {"idle", "slice", "shrink", "set"}
          /\ connect_name # Unassigned
          /\ Len(Utf8Encode(connect_name)) <= 32]_vars

C1_Witness ==
    /\ mm_pc = "del"
    /\ connect_names # RegisteredNames
    /\ connect_name_available_event

\* C2: while the event is not set (generate_output was never called, or ended
\* before line 186), modify_multidata has not passed its wait and the table is
\* the one the engine registered.
C2_NoEventNoMutation ==
    ~connect_name_available_event =>
        /\ mm_pc \in {"idle", "wait"}
        /\ connect_names = RegisteredNames

C2_Witness ==
    /\ go_pc = "done"
    /\ go_result = "KeyError"
    /\ ~connect_name_available_event
    /\ mm_pc = "wait"

\* C3: once modify_multidata has completed, a connect_name that differs from
\* the registered name has replaced it as a key and maps to the payload the
\* registered name held; a connect_name equal to it leaves the table unchanged.
C3_KeyRewritten ==
    mm_pc = "done" =>
        IF connect_name # player_name[player]
        THEN /\ player_name[player] \notin DOMAIN connect_names
             /\ connect_name \in DOMAIN connect_names
             /\ connect_names[connect_name] = RegisteredNames[player_name[player]]
        ELSE connect_names = RegisteredNames

C3_Witness ==
    /\ mm_pc = "done"
    /\ connect_name # player_name[player]
    /\ connect_names # RegisteredNames

-----------------------------------------------------------------------------
(* Properties of name finalize (SpecName) *)

Prefixes(s) == { SubSeq(s, 1, k) : k \in 0..Len(s) }

\* C4: the connect_name fixed by generate_output is a prefix of the display
\* name, encodes to at most 32 bytes, and no longer prefix of the display name
\* encodes to 32 bytes or fewer.
C4_LongestPrefix ==
    connect_name_available_event =>
        /\ connect_name \in Prefixes(player_name[player])
        /\ Len(Utf8Encode(connect_name)) <= 32
        /\ \A p \in Prefixes(player_name[player]) :
              Len(p) > Len(connect_name) => Len(Utf8Encode(p)) > 32

\* a name cut in front of a character that would not fit: fewer than 32 bytes
\* are left
C4_Witness ==
    /\ connect_name_available_event
    /\ Len(connect_name) < Len(player_name[player])
    /\ Len(Utf8Encode(connect_name)) < 32

-----------------------------------------------------------------------------
(* Properties of the output pipeline (SpecPipeline) *)

Intermediates == { PlacementPath, OutPath, SpoilerOf(OutPath) }

\* the stages of the pipeline, in their order
StageRank(stage) ==
    CASE stage = "name_finalize" -> 1
      [] stage = "serialize" -> 2
      [] stage = "build" -> 3
      [] stage = "package" -> 4
      [] stage = "cleanup" -> 5

Attempted(stage) == \E k \in 1..Len(stage_log) : stage_log[k] = stage

\* C5: once generate_output has returned or raised after attempting the
\* placement file (success, placement-write failure, build failure, packaging
\* failure), neither the placement file nor the output image nor the spoiler
\* log exists, whichever of them existed when the cleanup began.
C5_NoIntermediateLeft ==
    (go_pc = "done" /\ Attempted("serialize")) => files \cap Intermediates = {}

\* C6: when the native build or the packaging failed, generate_output raises
\* that failure, after the cleanup has run; nothing raised inside the cleanup
\* replaces it and the call does not return normally.
C6_OriginalFailureRaised ==
    /\ (go_pc = "done" /\ Attempted("build") /\ exc # "None") =>
          /\ go_result = exc
          /\ stage_log[Len(stage_log)] = "cleanup"
    /\ (Attempted("build") /\ ~Attempted("cleanup")) => go_result = "running"

\* the build failed and the cleanup stopped at a missing output image (the
\* spoiler log is still there), and RuntimeError is what the caller got
C6_Witness ==
    /\ go_pc = "done"
    /\ exc = "RuntimeError"
    /\ go_result = "RuntimeError"
    /\ SpoilerOf(OutPath) \in files

\* C7: no exception leaves the cleanup, whichever targets exist and whether or
\* not the paths were assigned, and running the cleanup again on what it left
\* raises nothing either.
C7_CleanupNeverRaises ==
    /\ cleanup_exc = "None"
    /\ (go_pc \in {"finish", "done"} /\ Attempted("cleanup")) =>
          Cleanup(files, placement_file, out_file).raised = "None"

\* the cleanup has run with both paths still None
C7_Witness ==
    /\ go_pc = "finish"
    /\ placement_file = NonePath
    /\ out_file = NonePath
    /\ cleanup_exc = "None"

\* the locations that get a line: owned by this player, holding a non-event item
Serialized(location) == location.player = player /\ location.item.code # None

\* the catalog entry a placed location or item was created from
RawLocationOf(location) ==
    CHOOSE l \in {_locations[i] : i \in 1..Len(_locations)} : l.name = location.name

RawItemOf(item) ==
    _items[CHOOSE i \in 1..Len(_items) :
              /\ _items[i].name = item.name
              /\ \A j \in 1..(i - 1) : _items[j].name # item.name]

\* '<loc.type>,<loc.index>:<item.type>,<item.index>' or
\* '<loc.type>,<loc.index>:NONE,<item.code>,<item.player>'
ExpectedLine(location) ==
    LET l == RawLocationOf(location)
    IN IF location.item.player = player
       THEN << l.type, ",", l.index, ":", RawItemOf(location.item).type, ",",
               RawItemOf(location.item).index, "\n" >>
       ELSE << l.type, ",", l.index, ":", "NONE", ",", location.item.code, ",",
               location.item.player, "\n" >>

SerializedCount ==
    Cardinality({ k \in 1..Len(world_locations) : Serialized(world_locations[k]) })

\* C8: the written placement file holds exactly one line per location owned by
\* this player that holds a non-event item, in the format of the claim, and no
\* other line.
C8_PlacementLines ==
    (go_pc = "build" \/ Attempted("build")) =>
        /\ Len(placement_lines) = SerializedCount
        /\ \A k \in 1..Len(world_locations) :
              Serialized(world_locations[k]) =>
                 Cardinality({ n \in 1..Len(placement_lines) :
                     placement_lines[n] = ExpectedLine(world_locations[k]) }) = 1

\* the file is written: one line for an item of this player, one for an item
\* of the other player, none for Done or for the other player's location
C8_Witness ==
    /\ go_pc = "build"
    /\ Len(placement_lines) = 2
    /\ Len(placement_lines[1]) # Len(placement_lines[2])
    /\ Len(world_locations) = 4

\* C9: the stages are attempted in the order name finalize, serialize, build,
\* package, cleanup, each at most once; the builder is called at most once, on
\* a placement file that is complete and closed; packaging is attempted only
\* after the builder returned 0; after a failure only the cleanup follows.
C9_StagesInOrder ==
    /\ \A i, j \in 1..Len(stage_log) :
          i < j => StageRank(stage_log[i]) < StageRank(stage_log[j])
    /\ Len(builder_calls) <= 1
    /\ Len(builder_calls) = (IF Attempted("build") THEN 1 ELSE 0)
    /\ \A k \in 1..Len(builder_calls) :
          /\ builder_calls[k].placement_closed
          /\ Len(builder_calls[k].placement) = SerializedCount
          /\ Attempted("serialize")
    /\ Attempted("package") => build_status = 0
    /\ exc # "None" => go_pc \in {"cleanup", "finish", "done"}
    /\ (go_pc = "done" /\ connect_name_available_event) => Attempted("cleanup")

C9_Witness ==
    /\ go_pc = "done"
    /\ stage_log = << "name_finalize", "serialize", "build", "package", "cleanup" >>
    /\ go_result = "returned"

-----------------------------------------------------------------------------
(* Properties of the numeric ids (SpecCatalog) *)

\* the reserved ranges: alchemy 64000..64049, boss 64050..64099, gourd
\* 64100..64399, npc 64400..64499
ReservedRange(type) ==
    CASE type = CHECK_ALCHEMY -> 64000..64049
      [] type = CHECK_BOSS -> 64050..64099
      [] type = CHECK_GOURD -> 64100..64399
      [] type = CHECK_NPC -> 64400..64499

\* every id of a mapping lies in the range of its entry's category, and no id
\* was given to two entries (n entries received an id)
IdsInRangeAndUnique(id_to_raw, n) ==
    /\ \A id \in DOMAIN id_to_raw : id \in ReservedRange(id_to_raw[id].type)
    /\ Cardinality(DOMAIN id_to_raw) = n

ItemNames == { _items[i].name : i \in 1..Len(_items) }

\* every index is below the number of ids reserved for its category
IndexesFitSlots(catalog) ==
    \A i \in 1..Len(catalog) : catalog[i].index < Slots(catalog[i].type)

\* C10 as claimed, for any index: every id lies in the reserved range of its
\* category and no two entries of the same kind share an id.
C10_AnyIndex ==
    import_pc = "loaded" =>
        /\ IdsInRangeAndUnique(location_id_to_raw, Len(_locations))
        /\ IdsInRangeAndUnique(item_id_to_raw, Cardinality(ItemNames))

\* C10, amended: for every catalog whose indexes are below the slot count of
\* their category (50, 50, 300, 100), every id lies in the reserved range of
\* its category and no two entries of the same kind share an id.
C10_IndexesInSlots ==
    /\ (import_pc = "loaded" /\ IndexesFitSlots(_locations)) =>
          IdsInRangeAndUnique(location_id_to_raw, Len(_locations))
    /\ (import_pc = "loaded" /\ IndexesFitSlots(_items)) =>
          IdsInRangeAndUnique(item_id_to_raw, Cardinality(ItemNames))

\* the last alchemy slot and the first boss slot are both taken
C10_Witness ==
    /\ import_pc = "loaded"
    /\ IndexesFitSlots(_locations)
    /\ 64049 \in DOMAIN location_id_to_raw
    /\ 64050 \in DOMAIN location_id_to_raw

-----------------------------------------------------------------------------
(* Module import over the catalogs pyevermizer can return (SpecNative) *)

\* Catalog entries with an index inside the slots of their category. Items
\* of one name may differ in everything else.
NativeRawLocations == { l \in RawLocations : l.index < Slots(l.type) }

NativeRawItems ==
    { [type |-> l.type, index |-> l.index, name |-> l.name, progression |-> p] :
        l \in NativeRawLocations, p \in BOOLEAN }

\* Gourds share their texts, which is what the fix-up is for; every other
\* location is addressed by its name (world.get_location(loc.name, player),
\* line 149), so no two of them carry the same one.
NativeLocationCatalog(locs) ==
    \A i, j \in 1..Len(locs) :
        (locs[i].name = locs[j].name /\ i # j)
            => (locs[i].type = CHECK_GOURD /\ locs[j].type = CHECK_GOURD)

InitNative ==
    /\ \/ \E locs \in Catalogs(NativeRawLocations) :
             NativeLocationCatalog(locs) /\ InitImport(FixedItems, locs)
       \/ \E its \in Catalogs(NativeRawItems) : InitImport(its, FixedRawLocations)
    /\ InitNoWorld
    /\ InitOutput({})
    /\ InitMultidata

SpecNative == InitNative /\ [][NextCatalog]_vars

\* name_to_id and id_to_raw are inverses of each other outside the synthetic
\* name, which maps to None and is the name of no entry of id_to_raw
MutualInverses(name_to_id, id_to_raw, synthetic) ==
    /\ \A n \in (DOMAIN name_to_id) \ {synthetic} :
          /\ name_to_id[n] \in DOMAIN id_to_raw
          /\ id_to_raw[name_to_id[n]].name = n
    /\ \A i \in DOMAIN id_to_raw :
          /\ id_to_raw[i].name \in DOMAIN name_to_id
          /\ name_to_id[id_to_raw[i].name] = i
    /\ synthetic \in DOMAIN name_to_id
    /\ name_to_id[synthetic] = None
    /\ None \notin DOMAIN id_to_raw
    /\ \A i \in DOMAIN id_to_raw : id_to_raw[i].name # synthetic

LocationNames == { _locations[i].name : i \in 1..Len(_locations) }

\* C11: once the module is loaded, item_name_to_id and item_id_to_raw are
\* inverses of each other on every name but 'Victory', location_name_to_id
\* and location_id_to_raw are on every name but 'Done', every catalog name
\* has an entry, and 'Victory' and 'Done' map to None and have no entry in
\* the id tables.
C11_MutualInverses ==
    import_pc = "loaded" =>
        /\ MutualInverses(item_name_to_id, item_id_to_raw, Name("Victory"))
        /\ MutualInverses(location_name_to_id, location_id_to_raw, Name("Done"))
        /\ DOMAIN item_name_to_id = ItemNames \cup {Name("Victory")}
        /\ DOMAIN location_name_to_id = LocationNames \cup {Name("Done")}

\* two gourds that pyevermizer returned under one text are both mapped
C11_Witness ==
    /\ import_pc = "loaded"
    /\ \E i, j \in 1..Len(_locations) :
          /\ i # j
          /\ _locations[i].type = CHECK_GOURD
          /\ _locations[j].type = CHECK_GOURD
          /\ _locations[i].name[1] = _locations[j].name[1]
    /\ Cardinality(DOMAIN location_id_to_raw) = Len(_locations)

\* the items _get_item_mapping has looked at so far
ItemsSeen ==
    CASE import_pc = "fixup" -> 0
      [] import_pc = "item_mapping" -> import_i - 1
      [] OTHER -> Len(_items)

\* the first item of the catalog that carries the name
FirstNamed(name) ==
    _items[CHOOSE i \in 1..Len(_items) :
               /\ _items[i].name = name
               /\ \A j \in 1..(i - 1) : _items[j].name # name]

\* C19: at every point of _get_item_mapping's loop the two tables hold
\* exactly the first occurrence of every name seen so far, so an item whose
\* name was seen before adds no entry to either table; once the module is
\* loaded, create_item(name) is built from the first item of that name.
C19_FirstOccurrenceWins ==
    LET seen == { _items[i].name : i \in 1..ItemsSeen }
    IN /\ (DOMAIN item_name_to_id) \ {Name("Victory")} = seen
       /\ \A n \in seen : item_name_to_id[n] = ApId(FirstNamed(n))
       /\ DOMAIN item_id_to_raw = { ApId(FirstNamed(n)) : n \in seen }
       /\ \A n \in seen : item_id_to_raw[ApId(FirstNamed(n))] = FirstNamed(n)
       /\ import_pc = "loaded" =>
             \A n \in seen : \A force \in BOOLEAN :
                 create_item_str(n, force) =
                     SoEItem(n, force \/ FirstNamed(n).progression,
                             ApId(FirstNamed(n)), player)

\* the catalog holds two items of one name that differ in category and in
\* their progression flag
C19_Witness ==
    /\ import_pc = "loaded"
    /\ Len(_items) = 2
    /\ _items[1].name = _items[2].name
    /\ _items[1].type # _items[2].type
    /\ _items[1].progression # _items[2].progression
    /\ Cardinality(DOMAIN item_id_to_raw) = 1

-----------------------------------------------------------------------------
(* The generation steps of one world, then its output (SpecWorld) *)

MaxRequires == 2

\* the requires lists of a location: up to MaxRequires pairs (count, progress)
RequiresSamples ==
    UNION { [1..k -> {1, 2} \X {P_FINAL_BOSS, P_WEAPON}] : k \in 0..MaxRequires }

\* the collection states: every way the logic can answer the questions
CollectionStates == SUBSET ({P_FINAL_BOSS, P_WEAPON} \X {None, 1, 2})

\* an item of the other player, who plays the same game
OtherItem(k) ==
    SoEItem(_items[k].name, TRUE, item_name_to_id[_items[k].name], other_player)

\* The other player's world was generated first: its location is in the
\* world and its item in the pool. Both players were given a pre-collected
\* item, which the engine keeps per player or in one list.
InitWorld ==
    /\ \E req \in RequiresSamples :
          InitLoaded(FixedItems, [FixedRawLocations EXCEPT ![1].requires = req])
    /\ player_name = [p \in {player, other_player} |->
                         IF p = player THEN Rep(233, 20) ELSE Rep(98, 2)]
    /\ world_locations =
          << SoELocation(other_player, _locations[1].name,
                         location_name_to_id[_locations[1].name], NoItem) >>
    /\ restrict_item_placement \in BOOLEAN
    /\ \E type \in {"dict", "list"} :
          precollected_items =
              [type |-> type,
               items |-> [q \in {player, other_player} |->
                             IF q = player
                             THEN << create_item_str(_items[1].name, FALSE) >>
                             ELSE << OtherItem(1) >>]]
    /\ InitNotGenerated
    /\ \E k \in 1..Len(_items) : itempool = << OtherItem(k) >>
    /\ InitOutput({})
    /\ InitMultidata

\* generate_output runs once the generation steps are through
GenerateOutput ==
    /\ world_pc = "generate_output"
    /\ NextOutput

NextWorld ==
    \/ CreateRegions
    \/ CreateItems
    \/ SetRules
    \/ GenerateBasic
    \/ Fill
    \/ PostFill
    \/ GenerateOutput

SpecWorld == InitWorld /\ [][NextWorld]_vars

\* the generation steps that have returned
StepRank(pc) ==
    CASE pc = "create_regions" -> 0
      [] pc = "create_items" -> 1
      [] pc = "set_rules" -> 2
      [] pc = "generate_basic" -> 3
      [] pc = "fill" -> 4
      [] pc = "post_fill" -> 5
      [] pc = "generate_output" -> 6

Returned(step) == StepRank(world_pc) > StepRank(step)

\* the candidate items of a location: what create_items makes of the catalog
\* and the items of the other player
Candidates ==
    { CreatePoolItem(_items[i]) : i \in 1..Len(_items) }
        \cup { OtherItem(k) : k \in 1..Len(_items) }

NativeCategory(item) == item_id_to_raw[item.code].type

\* C12 as claimed: with restricted placement, the item rule of a location
\* rejects every candidate whose native category differs from the
\* location's, candidates of another player included.
C12_RejectsEveryOtherCategory ==
    (restrict_item_placement /\ Returned("set_rules")) =>
        \A i \in 1..Len(_locations) : \A c \in Candidates :
            NativeCategory(c) # _locations[i].type
                => ~ItemRuleHolds(item_rules[_locations[i].name], c)

\* C12, amended: with restricted placement, the item rule of a location
\* rejects every candidate of this player whose native category differs
\* from the location's and accepts every candidate of another player,
\* whatever its category; after the fill every item of this player in a
\* location of this player is of the location's category.
C12_RejectsOwnOtherCategory ==
    (restrict_item_placement /\ Returned("set_rules")) =>
        /\ \A i \in 1..Len(_locations) : \A c \in Candidates :
              /\ (c.player = player /\ NativeCategory(c) # _locations[i].type)
                    => ~ItemRuleHolds(item_rules[_locations[i].name], c)
              /\ c.player # player
                    => ItemRuleHolds(item_rules[_locations[i].name], c)
        /\ Returned("fill") =>
              \A k \in 1..Len(world_locations) :
                  LET l == world_locations[k]
                  IN (l.player = player /\ ~l.event /\ l.item.player = player)
                        => NativeCategory(l.item) = RawLocationOf(l).type

\* restricted placement: an alchemy location holds a gourd of the other
\* player, the gourd location a gourd of this player
C12_Witness ==
    /\ restrict_item_placement
    /\ Returned("fill")
    /\ \E k \in 1..Len(world_locations) :
          LET l == world_locations[k]
          IN /\ l.player = player
             /\ ~l.event
             /\ l.item.player = other_player
             /\ NativeCategory(l.item) = CHECK_GOURD
             /\ RawLocationOf(l).type = CHECK_ALCHEMY
    /\ \E k \in 1..Len(world_locations) :
          LET l == world_locations[k]
          IN l.player = player /\ ~l.event /\ l.item.player = player

\* from the return of set_rules to the end of the fill, which evaluates them
RulesInUse == world_pc \in {"generate_basic", "fill", "post_fill"}

\* C13: the rule set_rules installs on a location holds in a state exactly
\* if the logic answers True for every (count, progress) of the location's
\* requires list; a rule with an empty list holds in every state.
C13_RuleIsConjunction ==
    RulesInUse =>
        \A i \in 1..Len(_locations) : \A state \in CollectionStates :
            LET requires == _locations[i].requires
                rule == access_rules[_locations[i].name]
            IN /\ rule.rule = "make_rule"
               /\ AccessRuleHolds(rule, state) <=>
                     \A k \in 1..Len(requires) :
                         _soe_has(state, requires[k][2], requires[k][1])
               /\ requires = << >> => AccessRuleHolds(rule, state)

\* a rule with two different requirements is installed, and some state meets
\* the first of them but not the second
C13_Witness ==
    /\ RulesInUse
    /\ \E i \in 1..Len(_locations) :
          LET requires == _locations[i].requires
          IN /\ Len(requires) = 2
             /\ requires[1] # requires[2]
             /\ \E state \in CollectionStates :
                   /\ _soe_has(state, requires[1][2], requires[1][1])
                   /\ ~AccessRuleHolds(access_rules[_locations[i].name], state)

\* the locations of this player that are named 'Done'
OwnDone ==
    { k \in 1..Len(world_locations) :
        world_locations[k].player = player /\ world_locations[k].name = Name("Done") }

\* C18: from create_regions on, this player has exactly one location 'Done',
\* with no numeric id and flagged as an event, and every location is flagged
\* as an event exactly if its numeric id is None; from generate_basic on,
\* 'Done' holds the locked event item 'Victory' of this player, which has no
\* numeric id, so that the serialization skips it: the written placement
\* file has one line per catalog location and none for 'Done'.
C18_DoneHoldsVictory ==
    /\ Returned("create_regions") =>
          /\ Cardinality(OwnDone) = 1
          /\ \A k \in OwnDone :
                world_locations[k].address = None /\ world_locations[k].event
          /\ \A k \in 1..Len(world_locations) :
                world_locations[k].event <=> world_locations[k].address = None
    /\ Returned("generate_basic") =>
          \A k \in OwnDone :
              /\ world_locations[k].item.name = Name("Victory")
              /\ world_locations[k].item.code = None
              /\ world_locations[k].item.advancement
              /\ world_locations[k].item.player = player
              /\ world_locations[k].locked
              /\ SkipsEvent(world_locations[k])
    /\ (world_pc = "generate_output" /\ (go_pc = "build" \/ Attempted("build"))) =>
          /\ Len(placement_lines) = Len(_locations)
          /\ \A n \in 1..Len(placement_lines) :
                \E i \in 1..Len(_locations) :
                    /\ placement_lines[n][1] = _locations[i].type
                    /\ placement_lines[n][3] = _locations[i].index

\* the placement file of a generated world is written
C18_Witness ==
    /\ world_pc = "generate_output"
    /\ go_pc = "build"
    /\ Len(placement_lines) = 2
    /\ \E k \in OwnDone : world_locations[k].item.name = Name("Victory")
    /\ \E k \in 1..Len(world_locations) : ~world_locations[k].event

\* what the engine held for a player before create_items ran
PrecollectedBefore(q) ==
    IF q = player THEN << create_item_str(_items[1].name, FALSE) >>
    ELSE << OtherItem(1) >>

\* the items create_items has added to the pool carry the name and the id of
\* their catalog item and the flag (native progression or
\* restrict_item_placement)
PoolAsClaimed ==
    /\ Len(itempool) >= Len(_items)
    /\ \A i \in 1..Len(_items) :
          itempool[Len(itempool) - Len(_items) + i] =
              SoEItem(_items[i].name,
                      _items[i].progression \/ restrict_item_placement,
                      item_name_to_id[_items[i].name], player)

\* create_items has returned and the fill has not yet taken the pool
PoolCreated == world_pc \in {"set_rules", "generate_basic", "fill"}

-----------------------------------------------------------------------------
(* Properties of the gate between the two threads (Spec, SpecFair) *)

\* the calls of connect_name_available_event.set() so far
SetCalls ==
    Cardinality({ k \in 1..Len(stage_log) : stage_log[k] = "name_finalize" })

C15_WaiterReturns ==
    connect_name_available_event ~> mm_pc = "done"

\* modify_multidata has returned although the build failed
C15_Witness ==
    /\ mm_pc = "done"
    /\ go_pc = "done"
    /\ build_status = 1
    /\ go_result = "RuntimeError"

\* C16 as claimed: modify_multidata changes no key of another player and
\* leaves the number of keys as it was, also when the shortened connect_name
\* is the name another player registered.
C16_OtherEntriesKept ==
    /\ \A n \in (DOMAIN RegisteredNames) \ {player_name[player]} :
          /\ n \in DOMAIN connect_names
          /\ connect_names[n] = RegisteredNames[n]
    /\ mm_pc = "done" =>
          Cardinality(DOMAIN connect_names) = Cardinality(DOMAIN RegisteredNames)

\* C17 as claimed: once generate_output has ended, a patch artifact exists
\* only if the build returned 0, the packaging completed and the call
\* returned; a call that raised has left none.
C17_PatchOnlyOnSuccess ==
    (go_pc = "done" /\ PatchPath \in files) =>
        /\ build_status = 0
        /\ patch_complete
        /\ go_result = "returned"

====
